---- MODULE Spec2Model ----
(***************************************************************************)
(* Model of joeycumines/go-htmlutil: the Node handle (htmlutil.go) and the *)
(* filter / find engine (internal.go).                                     *)
(*                                                                         *)
(* The parsed document is a finite ordered tree of html.Node values.  A    *)
(* handle (htmlutil.Node) is a record of Data (an html.Node or Nil), Depth *)
(* and Match.  The Match pointer of the Go struct is modelled by the list  *)
(* of snapshots it leads to: Match = <<>> is the nil pointer, Head(Match)  *)
(* is *n.Match without its own Match field, Tail(Match) is n.Match.Match.  *)
(***************************************************************************)
EXTENDS Integers, Sequences, FiniteSets, TLC

\* number of html.Node values of the parsed document
MaxNodes == 4
\* longest filter chain (nil entries included) a caller passes
MaxFilters == 2
\* longest attribute list of the element whose attributes are looked up
MaxAttrs == 3
\* longest Match chain of a handle the caller goes on with after navigating
MaxMatch == 1
\* how far outside the depths of the document the Depth of an empty handle
\* may be for the caller to go on with it
MaxOutside == 1

VARIABLES
    tree,     \* html.Node.Parent of every node of the document (0 for the root)
    tags,     \* html.Node.Data (the tag name) of every node
    attrs,    \* html.Node.Attr of every node
    cur,      \* the handle the caller holds
    op,       \* the last call: its name, receiver and filter chain
    result,   \* the slice the last call built: FilterNodes returns it, findNode
              \* takes its first element
    ret,      \* the handle the last call returned (FindNode, navigation)
    found,    \* the boolean the last call returned (FindNode, GetAttr), else TRUE
    calls,    \* the filter closure invocations of the last call, in order
    count,    \* the int the last call returned (SiblingIndex, SiblingLength)
    attr,     \* the html.Attribute the last call returned (GetAttr)
    err,      \* the error the last call returned (Parse) or panicked with (Range)
    visited,  \* the (i, node) pairs the last call passed to its callback (Range)
    stack     \* the frames of the traversal in progress, the innermost last

vars == <<tree, tags, attrs, cur, op, result, ret, found, calls, count, attr, err, visited, stack>>

----------------------------------------------------------------------------
(* html.Node: the external tree (golang.org/x/net/html)                    *)

Nil == 0
Nodes == 1 .. MaxNodes
DocRoot == 1

\* every ordered tree over Nodes, once: the nodes are numbered level by level,
\* so that siblings are numbered from left to right
Trees == { p \in [Nodes -> 0 .. MaxNodes] :
             /\ p[DocRoot] = 0
             /\ \A i \in Nodes \ {DocRoot} : p[i] \in 1 .. (i - 1)
             /\ \A i, j \in Nodes : i < j => p[i] <= p[j] }

TagNames == {"div", "span"}

\* html.Attribute
Attribute(ns, key, val) == [Namespace |-> ns, Key |-> key, Val |-> val]

\* html.Attribute{}
ZeroAttr == Attribute("", "", "")

\* the nil error
NoError == ""

\* the attributes of the div elements of the document
DivAttrs == << Attribute("", "ID", "a"), Attribute("svg", "id", "b"), Attribute("", "id", "c") >>

Namespaces == {"", "svg"}
Keys == {"id", "ID", "class"}

SetMin(S) == CHOOSE x \in S : \A y \in S : x <= y
SetMax(S) == CHOOSE x \in S : \A y \in S : x >= y

ChildSet(n) == { c \in Nodes : tree[c] = n }

HtmlParent(n) == tree[n]
HtmlFirstChild(n) == IF ChildSet(n) = {} THEN Nil ELSE SetMin(ChildSet(n))
HtmlLastChild(n) == IF ChildSet(n) = {} THEN Nil ELSE SetMax(ChildSet(n))
HtmlNextSibling(n) ==
    LET S == { c \in Nodes : tree[c] = tree[n] /\ c > n }
    IN IF tree[n] = Nil \/ S = {} THEN Nil ELSE SetMin(S)
HtmlPrevSibling(n) ==
    LET S == { c \in Nodes : tree[c] = tree[n] /\ c < n }
    IN IF tree[n] = Nil \/ S = {} THEN Nil ELSE SetMax(S)

----------------------------------------------------------------------------
(* htmlutil.Node                                                           *)

Node(data, depth, match) == [Data |-> data, Depth |-> depth, Match |-> match]

\* Node{} : the zero handle
ZeroNode == Node(Nil, 0, <<>>)

\* &n as a Match pointer: the copy of n, followed by what n.Match leads to
Snapshot(n) == <<[Data |-> n.Data, Depth |-> n.Depth]>> \o n.Match

\* Offset() that is 0 for a handle without Match
Offset_zeroWithoutMatch(n) == IF n.Match # <<>> THEN n.Depth - n.Match[1].Depth ELSE 0

Offset(n) == IF n.Match # <<>> THEN n.Depth - n.Match[1].Depth ELSE n.Depth

Tag(n) == IF n.Data # Nil THEN tags[n.Data] ELSE ""

----------------------------------------------------------------------------
(* filter closures: func(node Node) bool                                   *)

AnyOffset == -1

\* the nil closure
NilFilter == [tag |-> "nil", off |-> AnyOffset]

\* closures testing node.Tag(), and optionally node.Offset() as well
Closures == { [tag |-> "div", off |-> AnyOffset],
              [tag |-> "span", off |-> 1] }

\* filter(node) for a non-nil closure
Call(filter, node) ==
    /\ Tag(node) = filter.tag
    /\ filter.off = AnyOffset \/ Offset(node) = filter.off

RECURSIVE SeqsUpTo(_, _)
SeqsUpTo(S, k) ==
    IF k = 0 THEN {<<>>}
    ELSE LET R == SeqsUpTo(S, k - 1)
         IN R \cup { Append(s, x) : s \in { r \in R : Len(r) = k - 1 }, x \in S }

\* the filter chains a caller passes
Chains == SeqsUpTo(Closures \cup {NilFilter}, MaxFilters)

----------------------------------------------------------------------------
(* internal.go: filterConfig                                               *)

Config(node, filters, find) == [Node |-> node, Filters |-> filters, Find |-> find]

\* filters() that keeps the nil entries
filters_keepNil(fs) == fs

RECURSIVE filters(_)
filters(fs) ==
    IF fs = <<>> THEN <<>>
    ELSE IF Head(fs) # NilFilter THEN <<Head(fs)>> \o filters(Tail(fs))
    ELSE filters(Tail(fs))

\* match() that keeps any Match the node has, whatever node it is of
match_keepAny(c) ==
    IF c.Node.Data = Nil THEN c.Node.Match
    ELSE IF c.Node.Match # <<>> THEN c.Node.Match
    ELSE Snapshot(c.Node)

\* match() that takes a new snapshot also when the node is the last match
match_noSquash(c) ==
    IF c.Node.Data = Nil THEN c.Node.Match
    ELSE Snapshot(c.Node)

match(c) ==
    IF c.Node.Data = Nil THEN c.Node.Match
    ELSE IF c.Node.Match # <<>> /\ c.Node.Match[1].Data = c.Node.Data THEN c.Node.Match
    ELSE Snapshot(c.Node)

\* the loop of lines 113-124 left out
dedupe_none(res, start, finish) == res

\* the loop of lines 113-124: drop the entries from finish on whose Data is
\* that of an entry in [start, finish)
dedupe(res, start, finish) ==
    LET early == { res[i].Data : i \in (start + 1) .. finish }
        keep == { j \in 1 .. Len(res) : j <= finish \/ res[j].Data \notin early }
        F[j \in 0 .. Len(res)] ==
            IF j = 0 THEN <<>>
            ELSE IF j \in keep THEN Append(F[j - 1], res[j]) ELSE F[j - 1]
    IN F[Len(res)]

\* the loop of line 82: take filters off the front until one is not nil
RECURSIVE shift(_)
shift(fs) ==
    IF fs = <<>> THEN [filter |-> NilFilter, Filters |-> <<>>]
    ELSE IF Head(fs) # NilFilter THEN [filter |-> Head(fs), Filters |-> Tail(fs)]
    ELSE shift(Tail(fs))

\* the state of one run of filter(): the result slice and the closure calls
Run(res, cs) == [result |-> res, calls |-> cs]

RECURSIVE fn(_, _), consume(_, _), consumeLoop(_, _, _), searchLoop(_, _, _, _, _),
          search(_, _, _), filter(_, _), findNode(_, _, _), FirstChild(_, _, _),
          NextSibling(_, _, _), LastChild(_, _, _), PrevSibling(_, _, _), Parent(_, _, _)

\* fn without the find mode return of lines 68-70
fn_noShortCircuit(c, st) ==
    IF c.Node.Data = Nil THEN st
    ELSE IF Len(c.Filters) = 0 THEN Run(Append(st.result, c.Node), st.calls)
    ELSE search(c, Len(st.result), consume(c, st))

\* fn that goes on into the children when no filter is left
fn_descend(c, st) ==
    IF c.Node.Data = Nil THEN st
    ELSE IF Len(st.result) # 0 /\ c.Find THEN st
    ELSE IF Len(c.Filters) = 0
         THEN LET s0 == Run(Append(st.result, c.Node), st.calls)
              IN searchLoop(c, FirstChild(c.Node, <<>>, <<>>).node,
                            Len(s0.result), Len(s0.result), s0)
    ELSE search(c, Len(st.result), consume(c, st))

\* fn without the return of lines 64-66
fn_noNilCheck(c, st) ==
    IF Len(st.result) # 0 /\ c.Find THEN st
    ELSE IF Len(c.Filters) = 0 THEN Run(Append(st.result, c.Node), st.calls)
    ELSE search(c, Len(st.result), consume(c, st))

\* lines 63-126; the result is measured before Find is read, so that the run
\* handed in is a value here and not a computation still pending
fn(c, st) ==
    IF c.Node.Data = Nil THEN st
    ELSE IF Len(st.result) # 0 /\ c.Find THEN st
    ELSE IF Len(c.Filters) = 0 THEN Run(Append(st.result, c.Node), st.calls)
    ELSE search(c, Len(st.result), consume(c, st))

\* the closure trying the next filter on the node that matched, not on its
\* children
consume_sameNode(c, st) ==
    LET sh == shift(c.Filters)
        called == sh.filter # NilFilter
        s1 == IF called
              THEN Run(st.result, Append(st.calls, [filter |-> sh.filter, node |-> c.Node]))
              ELSE st
        c1 == [c EXCEPT !.Filters = sh.Filters]
        c2 == [c1 EXCEPT !.Node.Match = match(c1)]
    IN IF called /\ ~Call(sh.filter, c.Node) THEN s1
       ELSE IF Len(c1.Filters) = 0 THEN fn(c1, s1)
       ELSE fn(c2, s1)

\* the closure without line 97: the match is not recorded
consume_noMatch(c, st) ==
    LET sh == shift(c.Filters)
        called == sh.filter # NilFilter
        s1 == IF called
              THEN Run(st.result, Append(st.calls, [filter |-> sh.filter, node |-> c.Node]))
              ELSE st
        c1 == [c EXCEPT !.Filters = sh.Filters]
    IN IF called /\ ~Call(sh.filter, c.Node) THEN s1
       ELSE IF Len(c1.Filters) = 0 THEN fn(c1, s1)
       ELSE consumeLoop(c1, FirstChild(c1.Node, <<>>, <<>>).node, s1)

\* lines 79-104: the closure that consumes one filter at c.Node
consume(c, st) ==
    LET sh == shift(c.Filters)
        called == sh.filter # NilFilter
        s1 == IF called
              THEN Run(st.result, Append(st.calls, [filter |-> sh.filter, node |-> c.Node]))
              ELSE st
        c1 == [c EXCEPT !.Filters = sh.Filters]
        c2 == [c1 EXCEPT !.Node.Match = match(c1)]
    IN IF called /\ ~Call(sh.filter, c.Node) THEN s1
       ELSE IF Len(c1.Filters) = 0 THEN fn(c1, s1)
       ELSE consumeLoop(c2, FirstChild(c2.Node, <<>>, <<>>).node, s1)

\* lines 99-103
consumeLoop(c, n, st) ==
    IF n.Data = Nil THEN st
    ELSE consumeLoop(c, NextSibling(n, <<>>, <<>>).node, fn([c EXCEPT !.Node = n], st))

\* lines 106-125: s1 is the run after the closure of lines 79-104
search(c, start, s1) ==
    searchLoop(c, FirstChild(c.Node, <<>>, <<>>).node, start, Len(s1.result), s1)

\* lines 108-125
searchLoop(c, n, start, finish, st) ==
    IF n.Data = Nil THEN st
    ELSE LET s2 == fn([c EXCEPT !.Node = n], st)
             s3 == Run(dedupe(s2.result, start, finish), s2.calls)
         IN searchLoop(c, NextSibling(n, <<>>, <<>>).node, start, finish, s3)

\* filter() without line 56: the root is not made the initial match
filter_noRootMatch(c, cs) ==
    LET c1 == [c EXCEPT !.Filters = filters(c.Filters)]
    IN fn(c1, Run(<<>>, Append(cs, [filter |-> NilFilter, node |-> c1.Node])))

\* lines 53-131; cs is the closure calls made so far, begun with the root
filter(c, cs) ==
    LET c1 == [c EXCEPT !.Filters = filters(c.Filters)]
        c2 == [c1 EXCEPT !.Node.Match = match(c1)]
    IN fn(c2, Run(<<>>, Append(cs, [filter |-> NilFilter, node |-> c2.Node])))

filterNodes(node, fs, cs) == filter(Config(node, fs, FALSE), cs)

\* lines 146-149: what findNode returns for the run st of filter()
first(st) ==
    IF Len(st.result) = 0
    THEN [node |-> ZeroNode, ok |-> FALSE, elements |-> st.result, calls |-> st.calls]
    ELSE [node |-> st.result[1], ok |-> TRUE, elements |-> st.result, calls |-> st.calls]

\* findNode that returns the receiver when nothing matched
findNode_keepNode(node, fs, cs) ==
    LET r == first(filter(Config(node, fs, TRUE), cs))
    IN IF r.ok THEN r ELSE [r EXCEPT !.node = node]

findNode(node, fs, cs) == first(filter(Config(node, fs, TRUE), cs))

----------------------------------------------------------------------------
(* htmlutil.go: navigation                                                 *)

Nav(node, cs) == [node |-> node, calls |-> cs]

\* the same, returning the handle the find matched instead of n
ParentOr_matched(n, fs, r) ==
    IF ~r.ok THEN Parent(n, fs, r.calls) ELSE Nav(r.node, r.calls)

\* `if _, ok := n.FindNode(filters...); !ok { return n.Parent(filters...) }
\* return n`, for the outcome r of the find
ParentOr(n, fs, r) ==
    IF ~r.ok THEN Parent(n, fs, r.calls) ELSE Nav(n, r.calls)

\* the same with n.NextSibling(filters...)
NextSiblingOr(n, fs, r) ==
    IF ~r.ok THEN NextSibling(n, fs, r.calls) ELSE Nav(n, r.calls)

\* the same, returning the handle the find matched instead of n
PrevSiblingOr_matched(n, fs, r) ==
    IF ~r.ok THEN PrevSibling(n, fs, r.calls) ELSE Nav(r.node, r.calls)

\* the same with n.PrevSibling(filters...)
PrevSiblingOr(n, fs, r) ==
    IF ~r.ok THEN PrevSibling(n, fs, r.calls) ELSE Nav(n, r.calls)

\* Parent that returns the parent without the find of lines 228-232
Parent_unfiltered(n, fs, cs) ==
    LET n1 == [n EXCEPT !.Depth = @ - 1]
        n2 == IF n1.Data # Nil THEN [n1 EXCEPT !.Data = HtmlParent(@)] ELSE n1
    IN Nav(n2, cs)

Parent(n, fs, cs) ==
    LET n1 == [n EXCEPT !.Depth = @ - 1]
        n2 == IF n1.Data # Nil THEN [n1 EXCEPT !.Data = HtmlParent(@)] ELSE n1
    IN IF n2.Data # Nil
       THEN ParentOr(n2, fs, findNode(n2, fs, cs))
       ELSE Nav(n2, cs)

\* FirstChild without line 239: Depth is not incremented
FirstChild_noDepth(n, fs, cs) ==
    LET n2 == IF n.Data # Nil THEN [n EXCEPT !.Data = HtmlFirstChild(@)] ELSE n
    IN IF n2.Data # Nil
       THEN NextSiblingOr(n2, fs, findNode(n2, fs, cs))
       ELSE Nav(n2, cs)

FirstChild(n, fs, cs) ==
    LET n1 == [n EXCEPT !.Depth = @ + 1]
        n2 == IF n1.Data # Nil THEN [n1 EXCEPT !.Data = HtmlFirstChild(@)] ELSE n1
    IN IF n2.Data # Nil
       THEN NextSiblingOr(n2, fs, findNode(n2, fs, cs))
       ELSE Nav(n2, cs)

\* LastChild without line 254: Depth is not incremented
LastChild_noDepth(n, fs, cs) ==
    LET n2 == IF n.Data # Nil THEN [n EXCEPT !.Data = HtmlLastChild(@)] ELSE n
    IN IF n2.Data # Nil
       THEN PrevSiblingOr(n2, fs, findNode(n2, fs, cs))
       ELSE Nav(n2, cs)

LastChild(n, fs, cs) ==
    LET n1 == [n EXCEPT !.Depth = @ + 1]
        n2 == IF n1.Data # Nil THEN [n1 EXCEPT !.Data = HtmlLastChild(@)] ELSE n1
    IN IF n2.Data # Nil
       THEN PrevSiblingOr(n2, fs, findNode(n2, fs, cs))
       ELSE Nav(n2, cs)

\* PrevSibling without the find of lines 272-276
PrevSibling_unfiltered(n, fs, cs) ==
    Nav(IF n.Data # Nil THEN [n EXCEPT !.Data = HtmlPrevSibling(@)] ELSE n, cs)

PrevSibling(n, fs, cs) ==
    LET n2 == IF n.Data # Nil THEN [n EXCEPT !.Data = HtmlPrevSibling(@)] ELSE n
    IN IF n2.Data # Nil
       THEN PrevSiblingOr(n2, fs, findNode(n2, fs, cs))
       ELSE Nav(n2, cs)

NextSibling(n, fs, cs) ==
    LET n2 == IF n.Data # Nil THEN [n EXCEPT !.Data = HtmlNextSibling(@)] ELSE n
    IN IF n2.Data # Nil
       THEN NextSiblingOr(n2, fs, findNode(n2, fs, cs))
       ELSE Nav(n2, cs)

----------------------------------------------------------------------------
(* htmlutil.go, internal.go: the methods built on find and navigation      *)

getNode(node, fs, cs) == findNode(node, fs, cs).node

\* the callbacks a caller passes to Range: nil, one that always returns true,
\* one that returns false when called with index at
NilFn == [kind |-> "nil", at |-> 0]
AllFn == [kind |-> "all", at |-> 0]
StopFn(k) == [kind |-> "stop", at |-> k]

\* fn(i, node) for the callback cb
CallFn(cb, i, node) == cb.kind = "all" \/ i # cb.at

RangePanic == "htmlutil.Node.Range nil fn"

\* the state of one run of Range: the (i, node) pairs cb was called with
Visit(vs, cs, e) == [visited |-> vs, calls |-> cs, panic |-> e]

RECURSIVE rangeLoop(_, _, _, _, _), rangeLoop_noBreak(_, _, _, _, _)

\* the loop of lines 201-206 without the break of line 203
rangeLoop_noBreak(nav, i, cb, fs, vs) ==
    IF nav.node.Data = Nil THEN Visit(vs, nav.calls, NoError)
    ELSE rangeLoop_noBreak(NextSibling(nav.node, fs, nav.calls), i + 1, cb, fs,
                           Append(vs, [i |-> i, node |-> nav.node]))

\* the loop of lines 201-206, at the candidate nav has produced
rangeLoop(nav, i, cb, fs, vs) ==
    IF nav.node.Data = Nil THEN Visit(vs, nav.calls, NoError)
    ELSE LET vs1 == Append(vs, [i |-> i, node |-> nav.node])
         IN IF ~CallFn(cb, i, nav.node) THEN Visit(vs1, nav.calls, NoError)
            ELSE rangeLoop(NextSibling(nav.node, fs, nav.calls), i + 1, cb, fs, vs1)

\* Range without lines 197-199
Range_noNilCheck(n, cb, fs, cs) == rangeLoop(FirstChild(n, fs, cs), 0, cb, fs, <<>>)

Range(n, cb, fs, cs) ==
    IF cb = NilFn THEN Visit(<<>>, cs, RangePanic)
    ELSE rangeLoop(FirstChild(n, fs, cs), 0, cb, fs, <<>>)

\* lines 212-215: the slice the callback of Children builds in the run r of
\* Range
collected(r) ==
    [children |-> [k \in 1 .. Len(r.visited) |-> r.visited[k].node], calls |-> r.calls]

\* the slice Children returns, and the closure calls made on the way
Children(n, fs, cs) == collected(Range(n, AllFn, fs, cs))

Counted(v, node, cs) == [v |-> v, node |-> node, calls |-> cs]

\* the loop of internal.go line 238, at the sibling nav has produced
RECURSIVE siblingIndexLoop(_, _, _)
siblingIndexLoop(nav, fs, v) ==
    IF nav.node.Data = Nil THEN Counted(v, nav.node, nav.calls)
    ELSE siblingIndexLoop(PrevSibling(nav.node, fs, nav.calls), fs, v + 1)

siblingIndex(node, fs, cs) == siblingIndexLoop(PrevSibling(node, fs, cs), fs, 0)

\* the loop of internal.go line 248
RECURSIVE siblingLengthLoop(_, _, _)
siblingLengthLoop(nav, fs, v) ==
    IF nav.node.Data = Nil THEN Counted(v, nav.node, nav.calls)
    ELSE siblingLengthLoop(NextSibling(nav.node, fs, nav.calls), fs, v + 1)

\* internal.go lines 247-250 without the count of the receiver
fromIndex_skipSelf(node, fs, r) ==
    siblingLengthLoop(NextSibling(node, fs, r.calls), fs, r.v)

\* internal.go lines 247-250, for the outcome r of siblingIndex
fromIndex(node, fs, r) == siblingLengthLoop(Nav(node, r.calls), fs, r.v)

\* siblingLength that counts the receiver without looking at its Data
siblingLength_countNil(node, fs, cs) ==
    LET r == siblingIndex(node, fs, cs)
    IN siblingLengthLoop(NextSibling(node, fs, r.calls), fs, r.v + 1)

siblingLength(node, fs, cs) == fromIndex(node, fs, siblingIndex(node, fs, cs))

----------------------------------------------------------------------------
(* htmlutil.go, internal.go: attributes                                    *)

Attr(n) == IF n.Data = Nil THEN <<>> ELSE attrs[n.Data]

\* strings.ToLower on the keys of the model
ToLower(str) ==
    CASE str = "ID" -> "id"
      [] str = "Id" -> "id"
      [] OTHER -> str

Got(a, ok) == [attr |-> a, ok |-> ok]

\* getAttr that lowercases the keys whatever the namespace
getAttr_foldAlways(namespace, key, attributes) ==
    LET hit == { i \in 1 .. Len(attributes) :
                   /\ attributes[i].Namespace = namespace
                   /\ ToLower(attributes[i].Key) = ToLower(key) }
    IN IF hit = {} THEN Got(ZeroAttr, FALSE) ELSE Got(attributes[SetMin(hit)], TRUE)

getAttr(namespace, key, attributes) ==
    LET keyCaseInsensitive == namespace = ""
        key1 == IF keyCaseInsensitive THEN ToLower(key) ELSE key
        hit == { i \in 1 .. Len(attributes) :
                   /\ attributes[i].Namespace = namespace
                   /\ IF keyCaseInsensitive
                      THEN ToLower(attributes[i].Key) = key1
                      ELSE attributes[i].Key = key1 }
    IN IF hit = {} THEN Got(ZeroAttr, FALSE) ELSE Got(attributes[SetMin(hit)], TRUE)

getAttrVal(namespace, key, attributes) == getAttr(namespace, key, attributes).attr.Val

GetAttr(n, namespace, key) == getAttr(namespace, key, Attr(n))

----------------------------------------------------------------------------
(* htmlutil.go: Parse                                                      *)

ParseNoMatch == "htmlutil.Parse no match"

Parsed(node, e, cs) == [node |-> node, err |-> e, calls |-> cs]

\* Parse of a reader from which html.Parse builds the document, or fails
\* with readErr
\* lines 70-74, for the outcome r of the find
parsed(r) ==
    IF ~r.ok THEN Parsed(ZeroNode, ParseNoMatch, r.calls)
    ELSE Parsed(r.node, NoError, r.calls)

\* Parse that reports every failure as no match
Parse_alwaysNoMatch(readErr, fs) ==
    IF readErr # NoError THEN Parsed(ZeroNode, ParseNoMatch, <<>>)
    ELSE parsed(findNode(Node(DocRoot, 0, <<>>), fs, <<>>))

Parse(readErr, fs) ==
    IF readErr # NoError THEN Parsed(ZeroNode, readErr, <<>>)
    ELSE parsed(findNode(Node(DocRoot, 0, <<>>), fs, <<>>))

----------------------------------------------------------------------------
(* the state machine: a caller holding one handle                          *)

Op(name, recv, fs) == [name |-> name, recv |-> recv, Filters |-> fs]

\* html.Parse has built the document; the caller wraps it as Node{Data: node}
Init ==
    /\ tree \in Trees
    /\ tags \in [Nodes -> TagNames]
    /\ cur = Node(DocRoot, 0, <<>>)
    /\ op = Op("Parse", ZeroNode, <<>>)
    /\ result = <<>>
    /\ ret = ZeroNode
    /\ found = TRUE
    /\ calls = <<>>
    /\ attrs = [n \in Nodes |-> IF tags[n] = "div" THEN DivAttrs ELSE <<>>]
    /\ count = 0
    /\ attr = ZeroAttr
    /\ err = NoError
    /\ visited = <<>>
    /\ stack = <<>>

\* the call returned no int, no html.Attribute and no error, and had no
\* callback
NoOther ==
    /\ count' = 0
    /\ attr' = ZeroAttr
    /\ err' = NoError
    /\ visited' = <<>>
    /\ stack' = <<>>

\* the caller holds a handle and no call has returned yet
Idle == op.name \in {"Parse", "Select"}

\* a call that returns the slice and the closure calls of st
Filtered(name, st, fs) ==
    /\ Idle
    /\ op' = Op(name, cur, fs)
    /\ result' = st.result
    /\ ret' = ZeroNode
    /\ found' = TRUE
    /\ calls' = st.calls
    /\ NoOther
    /\ UNCHANGED <<tree, tags, attrs, cur>>

\* n.FilterNodes(filters...)
FilterNodes == \E fs \in Chains : Filtered("FilterNodes", filterNodes(cur, fs, <<>>), fs)

\* a call that returns the outcome r of a find
Found(name, r, fs) ==
    /\ Idle
    /\ op' = Op(name, cur, fs)
    /\ result' = r.elements
    /\ ret' = r.node
    /\ found' = r.ok
    /\ calls' = r.calls
    /\ NoOther
    /\ UNCHANGED <<tree, tags, attrs, cur>>

\* n.FindNode(filters...)
FindNode == \E fs \in Chains : Found("FindNode", findNode(cur, fs, <<>>), fs)

\* the caller goes on with one of the handles a traversal returned
Select ==
    /\ op.name \in {"FilterNodes", "FindNode"}
    /\ \E i \in 1 .. Len(result) : cur' = result[i]
    /\ op' = Op("Select", ZeroNode, <<>>)
    /\ result' = <<>>
    /\ ret' = ZeroNode
    /\ found' = TRUE
    /\ calls' = <<>>
    /\ NoOther
    /\ UNCHANGED <<tree, tags, attrs>>

\* the chains without nil entries
PlainChains == { fs \in Chains : \A i \in 1 .. Len(fs) : fs[i] # NilFilter }

Navigate(name, r, fs) ==
    /\ Idle
    /\ op' = Op(name, cur, fs)
    /\ result' = <<>>
    /\ ret' = r.node
    /\ found' = TRUE
    /\ calls' = r.calls
    /\ NoOther
    /\ UNCHANGED <<tree, tags, attrs, cur>>

CallParent == \E fs \in PlainChains : Navigate("Parent", Parent(cur, fs, <<>>), fs)
CallFirstChild == \E fs \in PlainChains : Navigate("FirstChild", FirstChild(cur, fs, <<>>), fs)
CallLastChild == \E fs \in PlainChains : Navigate("LastChild", LastChild(cur, fs, <<>>), fs)
CallPrevSibling == \E fs \in PlainChains : Navigate("PrevSibling", PrevSibling(cur, fs, <<>>), fs)
CallNextSibling == \E fs \in PlainChains : Navigate("NextSibling", NextSibling(cur, fs, <<>>), fs)

\* n.GetNode(filters...): the handle of getNode, the closure calls of its find
CallGetNode ==
    \E fs \in PlainChains :
        Navigate("GetNode", Nav(getNode(cur, fs, <<>>), findNode(cur, fs, <<>>).calls), fs)

\* the slice and the closure calls of Children as those of a run of filter()
Listed(r) == Run(r.children, r.calls)

\* n.Children(filters...)
CallChildren == \E fs \in PlainChains : Filtered("Children", Listed(Children(cur, fs, <<>>)), fs)

\* a call that returns an int
Count(name, r, fs) ==
    /\ Idle
    /\ op' = Op(name, cur, fs)
    /\ result' = <<>>
    /\ ret' = ZeroNode
    /\ found' = TRUE
    /\ calls' = r.calls
    /\ count' = r.v
    /\ attr' = ZeroAttr
    /\ err' = NoError
    /\ visited' = <<>>
    /\ stack' = <<>>
    /\ UNCHANGED <<tree, tags, attrs, cur>>

\* n.SiblingIndex(filters...)
CallSiblingIndex ==
    \E fs \in PlainChains : Count("SiblingIndex", siblingIndex(cur, fs, <<>>), fs)

\* n.SiblingLength(filters...)
CallSiblingLength ==
    \E fs \in PlainChains : Count("SiblingLength", siblingLength(cur, fs, <<>>), fs)

\* n.Offset()
CallOffset == Count("Offset", Counted(Offset(cur), cur, <<>>), <<>>)

\* GetAttr has returned r; op.Filters holds the two strings
GotAttr(ns, key, r) ==
    /\ Idle
    /\ op' = Op("GetAttr", cur, <<ns, key>>)
    /\ result' = <<>>
    /\ ret' = ZeroNode
    /\ found' = r.ok
    /\ calls' = <<>>
    /\ count' = 0
    /\ attr' = r.attr
    /\ err' = NoError
    /\ visited' = <<>>
    /\ stack' = <<>>
    /\ UNCHANGED <<tree, tags, attrs, cur>>

\* n.GetAttr(namespace, key)
CallGetAttr ==
    \E ns \in Namespaces, key \in Keys : GotAttr(ns, key, GetAttr(cur, ns, key))

\* the callbacks a caller passes to Range
Callbacks == {NilFn, AllFn} \cup { StopFn(k) : k \in 0 .. (MaxNodes - 2) }

\* the record of a call of Range: the callback, the chain
RangeOp(cb, fs) == [name |-> "Range", recv |-> cur, Filters |-> fs, fn |-> cb]

\* Range has returned, or panicked, after the run r
Ranged(cb, fs, r) ==
    /\ Idle
    /\ op' = RangeOp(cb, fs)
    /\ result' = <<>>
    /\ ret' = ZeroNode
    /\ found' = TRUE
    /\ calls' = r.calls
    /\ count' = 0
    /\ attr' = ZeroAttr
    /\ err' = r.panic
    /\ visited' = r.visited
    /\ stack' = <<>>
    /\ UNCHANGED <<tree, tags, attrs, cur>>

\* n.Range(fn, filters...)
CallRange ==
    \E cb \in Callbacks, fs \in Chains : Ranged(cb, fs, Range(cur, cb, fs, <<>>))

\* the handles the last call returned
Returned ==
    IF op.name \in {"FilterNodes", "Children"} THEN { result[i] : i \in 1 .. Len(result) }
    ELSE IF op.name \in {"FindNode", "GetNode", "Parent", "FirstChild", "LastChild",
                         "PrevSibling", "NextSibling"} THEN {ret}
    ELSE {}

\* the caller goes on with one of the handles the last call returned, an
\* empty one also
Take ==
    /\ \E n \in Returned :
          /\ Len(n.Match) <= MaxMatch
          /\ n.Depth \in (0 - MaxOutside) .. (MaxNodes - 1 + MaxOutside)
          /\ cur' = n
    /\ op' = Op("Select", ZeroNode, <<>>)
    /\ result' = <<>>
    /\ ret' = ZeroNode
    /\ found' = TRUE
    /\ calls' = <<>>
    /\ NoOther
    /\ UNCHANGED <<tree, tags, attrs>>

\* the engine alone
Next ==
    \/ FilterNodes
    \/ FindNode
    \/ Select

Spec == Init /\ [][Next]_vars

\* the engine and the navigation methods built on it
NextNav ==
    \/ FilterNodes
    \/ FindNode
    \/ Select
    \/ CallParent
    \/ CallFirstChild
    \/ CallLastChild
    \/ CallPrevSibling
    \/ CallNextSibling

SpecNav == Init /\ [][NextNav]_vars

\* the child and sibling methods, on the handles FilterNodes returns
NextSib ==
    \/ FilterNodes
    \/ Select
    \/ CallFirstChild
    \/ CallLastChild
    \/ CallPrevSibling
    \/ CallNextSibling
    \/ CallSiblingIndex

SpecSib == Init /\ [][NextSib]_vars

\* the errors html.Parse returns: none, or one of the reader's
ReadErrs == {NoError, "io: read/write on closed pipe", "unexpected EOF"}

\* the reader holds the document and no call has been made
InitParse ==
    /\ tree \in Trees
    /\ tags \in [Nodes -> TagNames]
    /\ attrs = [n \in Nodes |-> IF tags[n] = "div" THEN DivAttrs ELSE <<>>]
    /\ cur = ZeroNode
    /\ op = Op("Start", ZeroNode, <<>>)
    /\ result = <<>>
    /\ ret = ZeroNode
    /\ found = TRUE
    /\ calls = <<>>
    /\ count = 0
    /\ attr = ZeroAttr
    /\ err = NoError
    /\ visited = <<>>
    /\ stack = <<>>

\* the record of a call of Parse: the reader's error, the chain
ParseOp(readErr, fs) ==
    [name |-> "htmlutil.Parse", recv |-> ZeroNode, Filters |-> fs, readErr |-> readErr]

\* Parse has returned r
ParseReturns(readErr, fs, r) ==
    /\ op.name = "Start"
    /\ op' = ParseOp(readErr, fs)
    /\ result' = <<>>
    /\ ret' = r.node
    /\ found' = TRUE
    /\ calls' = r.calls
    /\ count' = 0
    /\ attr' = ZeroAttr
    /\ err' = r.err
    /\ visited' = <<>>
    /\ stack' = <<>>
    /\ UNCHANGED <<tree, tags, attrs, cur>>

\* htmlutil.Parse(r, filters...)
CallParse ==
    \E readErr \in ReadErrs, fs \in Chains : ParseReturns(readErr, fs, Parse(readErr, fs))

\* the caller goes on with the handle Parse returned without error
Adopt ==
    /\ op.name = "htmlutil.Parse"
    /\ err = NoError
    /\ cur' = ret
    /\ op' = Op("Select", ZeroNode, <<>>)
    /\ result' = <<>>
    /\ ret' = ZeroNode
    /\ found' = TRUE
    /\ calls' = <<>>
    /\ NoOther
    /\ UNCHANGED <<tree, tags, attrs>>

\* Parse, and the finds of the caller on the handle it returned
NextParse ==
    \/ CallParse
    \/ Adopt
    \/ FindNode

SpecParse == InitParse /\ [][NextParse]_vars

\* every method, from every handle a call returns, the empty ones included
NextWalk ==
    \/ FilterNodes
    \/ FindNode
    \/ CallGetNode
    \/ CallParent
    \/ CallFirstChild
    \/ CallLastChild
    \/ CallPrevSibling
    \/ CallNextSibling
    \/ CallChildren
    \/ CallSiblingIndex
    \/ CallSiblingLength
    \/ CallGetAttr
    \/ CallOffset
    \/ Take

SpecWalk == Init /\ [][NextWalk]_vars

\* the sibling counts, on the handles FilterNodes and the forward navigation
\* return, the empty ones included
NextLen ==
    \/ FilterNodes
    \/ CallFirstChild
    \/ CallNextSibling
    \/ CallSiblingIndex
    \/ CallSiblingLength
    \/ Take

SpecLen == Init /\ [][NextLen]_vars

\* chains of navigation calls from the parsed root, each on the handle the
\* one before returned, the empty ones included
NextStep ==
    \/ CallParent
    \/ CallFirstChild
    \/ CallLastChild
    \/ CallPrevSibling
    \/ CallNextSibling
    \/ Take

SpecStep == Init /\ [][NextStep]_vars

\* Range and Children, on the handles FilterNodes and FirstChild return, the
\* empty ones included
NextRange ==
    \/ FilterNodes
    \/ CallFirstChild
    \/ CallChildren
    \/ CallRange
    \/ Take

SpecRange == Init /\ [][NextRange]_vars

\* a caller's loop `for node := n.FirstChild(filters...); node.Data != nil;
\* node = node.NextSibling(filters...)`, collecting the handles
RECURSIVE forwardLoop(_, _, _), backwardLoop(_, _, _)
forwardLoop(nav, fs, vs) ==
    IF nav.node.Data = Nil THEN vs
    ELSE forwardLoop(NextSibling(nav.node, fs, nav.calls), fs, Append(vs, nav.node))

\* a caller's loop `for node := n.LastChild(filters...); node.Data != nil;
\* node = node.PrevSibling(filters...)`, numbering the handles as they come
backwardLoop(nav, fs, vs) ==
    IF nav.node.Data = Nil THEN vs
    ELSE backwardLoop(PrevSibling(nav.node, fs, nav.calls), fs,
                      Append(vs, [i |-> Len(vs), node |-> nav.node]))

\* the caller has run both loops: result holds the handles of the first,
\* visited those of the second
Iterated(fs, forward, backward) ==
    /\ Idle
    /\ op' = Op("Iterate", cur, fs)
    /\ result' = forward
    /\ ret' = ZeroNode
    /\ found' = TRUE
    /\ calls' = <<>>
    /\ count' = 0
    /\ attr' = ZeroAttr
    /\ err' = NoError
    /\ visited' = backward
    /\ stack' = <<>>
    /\ UNCHANGED <<tree, tags, attrs, cur>>

Iterate ==
    \E fs \in PlainChains :
        Iterated(fs, forwardLoop(FirstChild(cur, fs, <<>>), fs, <<>>),
                 backwardLoop(LastChild(cur, fs, <<>>), fs, <<>>))

\* the two loops over the children, on the handles FilterNodes returns
NextIter ==
    \/ FilterNodes
    \/ Select
    \/ Iterate

SpecIter == Init /\ [][NextIter]_vars

\* the attributes an element may have: with and without namespace, keys that
\* differ in case only, values that tell them apart
AttrPool ==
    { Attribute(ns, key, val) : ns \in Namespaces, key \in {"id", "ID"}, val \in {"a", "b"} }

AttrLists == SeqsUpTo(AttrPool, MaxAttrs)

\* the namespaces and keys a caller looks up
AskedNamespaces == Namespaces \cup {"SVG"}
AskedKeys == Keys \cup {"Id"}

\* the caller holds the handle of an element with any attribute list
InitAttr ==
    /\ tree \in Trees
    /\ tags = [n \in Nodes |-> "div"]
    /\ attrs \in { [n \in Nodes |-> IF n = DocRoot THEN l ELSE <<>>] : l \in AttrLists }
    /\ cur = Node(DocRoot, 0, <<>>)
    /\ op = Op("Parse", ZeroNode, <<>>)
    /\ result = <<>>
    /\ ret = ZeroNode
    /\ found = TRUE
    /\ calls = <<>>
    /\ count = 0
    /\ attr = ZeroAttr
    /\ err = NoError
    /\ visited = <<>>
    /\ stack = <<>>

\* n.GetAttr(namespace, key) with any namespace and key
LookUp ==
    \E ns \in AskedNamespaces, key \in AskedKeys : GotAttr(ns, key, GetAttr(cur, ns, key))

NextAttr == LookUp

SpecAttr == InitAttr /\ [][NextAttr]_vars

----------------------------------------------------------------------------
(* internal.go: filter() statement by statement, its frames on a stack      *)

\* a frame of fn (lines 63-126) or of the closure fn calls (lines 79-104):
\* its parameter c, its locals start, finish and n, where it is, and the
\* html.Node it was called on. A frame of a method of Node holds the receiver
\* and the filters in c, and the handle its loop is at in n.
Frame(proc, pc, c, start, finish, n) ==
    [proc |-> proc, pc |-> pc, c |-> c, start |-> start, finish |-> finish, n |-> n,
     on |-> c.Node.Data]

\* a closure call: the filter, the handle, the place of the filter in the
\* chain without its nil entries, and len(result) at the call
Called(f, node, pos, had) ==
    [filter |-> f, node |-> node, pos |-> pos, had |-> had]

Top == stack[Len(stack)]
Pop == SubSeq(stack, 1, Len(stack) - 1)
Replace(f) == [stack EXCEPT ![Len(stack)] = f]
Push(f, g) == Append(Replace(f), g)

At(proc, pc) == stack # <<>> /\ Top.proc = proc /\ Top.pc = pc

\* what a step of the traversal leaves alone
Rest == UNCHANGED <<tree, tags, attrs, cur, op, ret, found, count, attr, err, visited>>

\* the call of filter(): find says whether it is findNode's
EngineOp(fs, find) == [name |-> "filter", recv |-> cur, Filters |-> fs, Find |-> find]

\* lines 68-70 never taken
ShortCircuit_never(c) == FALSE

\* the condition of lines 68-70
ShortCircuit(c) == c.Find /\ Len(result) # 0

\* the loop of lines 108-125 over no node
SearchFrom_none(c) == [c.Node EXCEPT !.Data = Nil]

\* the loop of lines 108-125 begun at the node itself
SearchFrom_self(c) == c.Node

\* line 108: where the loop over the children begins
SearchFrom(c) == FirstChild(c.Node, <<>>, <<>>).node

\* lines 53-61 and 128: filter() strips the nil filters, makes the root the
\* initial match and calls fn
Started(fs, find) ==
    LET c1 == Config(cur, filters(fs), find)
        c2 == [c1 EXCEPT !.Node.Match = match(c1)]
    IN /\ Idle
       /\ stack = <<>>
       /\ op' = EngineOp(fs, find)
       /\ stack' = <<Frame("fn", "enter", c2, 0, 0, ZeroNode)>>
       /\ result' = <<>>
       /\ calls' = <<Called(NilFilter, c2.Node, 0, 0)>>
       /\ UNCHANGED <<tree, tags, attrs, cur, ret, found, count, attr, err, visited>>

\* n.FilterNodes(filters...) or n.FindNode(filters...) begins
Start == \E fs \in Chains, find \in BOOLEAN : Started(fs, find)

\* lines 64-70: fn returns at once
FnReturn ==
    /\ At("fn", "enter")
    /\ Top.c.Node.Data = Nil \/ ShortCircuit(Top.c)
    /\ stack' = Pop
    /\ UNCHANGED <<result, calls>>
    /\ Rest

\* lines 72-75: no filter is left, the node is a result
FnAppend ==
    /\ At("fn", "enter")
    /\ Top.c.Node.Data # Nil
    /\ ~ShortCircuit(Top.c)
    /\ Len(Top.c.Filters) = 0
    /\ result' = Append(result, Top.c.Node)
    /\ stack' = Pop
    /\ UNCHANGED calls
    /\ Rest

\* lines 77-79: fn notes len(result) and calls the closure with a copy of c
FnConsume ==
    /\ At("fn", "enter")
    /\ Top.c.Node.Data # Nil
    /\ ~ShortCircuit(Top.c)
    /\ Len(Top.c.Filters) # 0
    /\ stack' = Push([Top EXCEPT !.pc = "closed", !.start = Len(result)],
                     Frame("closure", "enter", Top.c, 0, 0, ZeroNode))
    /\ UNCHANGED <<result, calls>>
    /\ Rest

\* lines 80-87: the closure takes the next filter off the chain and calls it
\* with the node; it returns when the filter does not accept the node
ClosureReject ==
    /\ At("closure", "enter")
    /\ LET sh == shift(Top.c.Filters)
       IN /\ sh.filter # NilFilter
          /\ ~Call(sh.filter, Top.c.Node)
          /\ calls' = Append(calls, Called(sh.filter, Top.c.Node,
                                           Len(filters(op.Filters)) - Len(sh.Filters),
                                           Len(result)))
    /\ stack' = Pop
    /\ UNCHANGED result
    /\ Rest

\* lines 80-93: the filter accepts the node and was the last one: fn is
\* called on the same node
ClosureLast ==
    /\ At("closure", "enter")
    /\ LET sh == shift(Top.c.Filters)
           c1 == [Top.c EXCEPT !.Filters = sh.Filters]
       IN /\ sh.filter = NilFilter \/ Call(sh.filter, Top.c.Node)
          /\ Len(sh.Filters) = 0
          /\ calls' = IF sh.filter = NilFilter THEN calls
                      ELSE Append(calls, Called(sh.filter, Top.c.Node,
                                                Len(filters(op.Filters)) - Len(sh.Filters),
                                                Len(result)))
          /\ stack' = Push([Top EXCEPT !.pc = "return", !.c = c1],
                           Frame("fn", "enter", c1, 0, 0, ZeroNode))
    /\ UNCHANGED result
    /\ Rest

\* lines 80-99: the filter accepts the node and others are left: the node
\* becomes the match, the loop over its children begins
ClosureMatch ==
    /\ At("closure", "enter")
    /\ LET sh == shift(Top.c.Filters)
           c1 == [Top.c EXCEPT !.Filters = sh.Filters]
           c2 == [c1 EXCEPT !.Node.Match = match(c1)]
       IN /\ sh.filter = NilFilter \/ Call(sh.filter, Top.c.Node)
          /\ Len(sh.Filters) # 0
          /\ calls' = IF sh.filter = NilFilter THEN calls
                      ELSE Append(calls, Called(sh.filter, Top.c.Node,
                                                Len(filters(op.Filters)) - Len(sh.Filters),
                                                Len(result)))
          /\ stack' = Replace([Top EXCEPT !.pc = "loop", !.c = c2,
                                          !.n = FirstChild(c2.Node, <<>>, <<>>).node])
    /\ UNCHANGED result
    /\ Rest

\* lines 99-103: fn is called on the child n, with the filters that are left
ClosureLoop ==
    /\ At("closure", "loop")
    /\ Top.n.Data # Nil
    /\ stack' = Push([Top EXCEPT !.c.Node = Top.n,
                                 !.n = NextSibling(Top.n, <<>>, <<>>).node],
                     Frame("fn", "enter", [Top.c EXCEPT !.Node = Top.n], 0, 0, ZeroNode))
    /\ UNCHANGED <<result, calls>>
    /\ Rest

\* lines 92 and 99: the closure returns
ClosureReturn ==
    /\ \/ At("closure", "return")
       \/ At("closure", "loop") /\ Top.n.Data = Nil
    /\ stack' = Pop
    /\ UNCHANGED <<result, calls>>
    /\ Rest

\* lines 106-108: the closure has returned; fn notes len(result) and begins
\* the loop over the children, with all the filters it was called with
FnSearch ==
    /\ At("fn", "closed")
    /\ stack' = Replace([Top EXCEPT !.pc = "loop", !.finish = Len(result),
                                    !.n = SearchFrom(Top.c)])
    /\ UNCHANGED <<result, calls>>
    /\ Rest

\* lines 108-111: fn is called on the child n
FnLoop ==
    /\ At("fn", "loop")
    /\ Top.n.Data # Nil
    /\ stack' = Push([Top EXCEPT !.pc = "dedupe", !.c.Node = Top.n],
                     Frame("fn", "enter", [Top.c EXCEPT !.Node = Top.n], 0, 0, ZeroNode))
    /\ UNCHANGED <<result, calls>>
    /\ Rest

\* lines 113-124 and the n.NextSibling() of line 108
FnDedupe ==
    /\ At("fn", "dedupe")
    /\ result' = dedupe(result, Top.start, Top.finish)
    /\ stack' = Replace([Top EXCEPT !.pc = "loop", !.n = NextSibling(Top.n, <<>>, <<>>).node])
    /\ UNCHANGED calls
    /\ Rest

\* line 108: no child is left, fn returns
FnDone ==
    /\ At("fn", "loop")
    /\ Top.n.Data = Nil
    /\ stack' = Pop
    /\ UNCHANGED <<result, calls>>
    /\ Rest

\* the caller has wrapped a node of the document, or holds the empty handle
InitEngine ==
    /\ tree \in Trees
    /\ tags \in [Nodes -> TagNames]
    /\ attrs = [n \in Nodes |-> IF tags[n] = "div" THEN DivAttrs ELSE <<>>]
    /\ cur \in { Node(x, 0, <<>>) : x \in Nodes \cup {Nil} }
    /\ op = Op("Parse", ZeroNode, <<>>)
    /\ result = <<>>
    /\ ret = ZeroNode
    /\ found = TRUE
    /\ calls = <<>>
    /\ count = 0
    /\ attr = ZeroAttr
    /\ err = NoError
    /\ visited = <<>>
    /\ stack = <<>>

NextEngine ==
    \/ Start
    \/ FnReturn
    \/ FnAppend
    \/ FnConsume
    \/ ClosureReject
    \/ ClosureLast
    \/ ClosureMatch
    \/ ClosureLoop
    \/ ClosureReturn
    \/ FnSearch
    \/ FnLoop
    \/ FnDedupe
    \/ FnDone

SpecEngine == InitEngine /\ [][NextEngine]_vars

----------------------------------------------------------------------------
(* htmlutil.go, internal.go: the methods built on find, call by call        *)

NavProcs == {"Parent", "FirstChild", "LastChild", "PrevSibling", "NextSibling"}
LoopProcs == {"SiblingIndex", "SiblingLength", "Range"}

AtNav(pc) == stack # <<>> /\ Top.proc \in NavProcs /\ Top.pc = pc
AtLoop(pc) == stack # <<>> /\ Top.proc \in LoopProcs /\ Top.pc = pc

\* the first two statements of a navigation method: Depth, then Data
Moved(proc, n) ==
    LET n1 == CASE proc = "Parent" -> [n EXCEPT !.Depth = @ - 1]
                [] proc \in {"FirstChild", "LastChild"} -> [n EXCEPT !.Depth = @ + 1]
                [] OTHER -> n
    IN IF n1.Data = Nil THEN n1
       ELSE [n1 EXCEPT !.Data = CASE proc = "Parent" -> HtmlParent(@)
                                  [] proc = "FirstChild" -> HtmlFirstChild(@)
                                  [] proc = "LastChild" -> HtmlLastChild(@)
                                  [] proc = "PrevSibling" -> HtmlPrevSibling(@)
                                  [] proc = "NextSibling" -> HtmlNextSibling(@)]

\* the method a navigation method calls when the find on its candidate fails
Onward(proc) ==
    CASE proc = "FirstChild" -> "NextSibling"
      [] proc = "LastChild" -> "PrevSibling"
      [] OTHER -> proc

\* the chains of the calls followed statement by statement: none, one
\* filter, two filters
CallChains == { <<>>, <<[tag |-> "div", off |-> AnyOffset]>>,
                <<[tag |-> "div", off |-> AnyOffset], [tag |-> "span", off |-> 1]>> }

\* n.FilterNodes(filters...) or n.FindNode(filters...) begins
StartFilter == \E fs \in CallChains, find \in BOOLEAN : Started(fs, find)

\* the caller calls a navigation method, SiblingIndex, SiblingLength or
\* Range with a callback that always returns true
StartCall ==
    \E name \in NavProcs \cup LoopProcs, fs \in CallChains :
        /\ Idle
        /\ stack = <<>>
        /\ op' = Op(name, cur, fs)
        /\ stack' = <<Frame(name, "enter", Config(cur, fs, TRUE), 0, 0, cur)>>
        /\ result' = <<>>
        /\ ret' = ZeroNode
        /\ calls' = <<>>
        /\ count' = 0
        /\ visited' = <<>>
        /\ UNCHANGED <<tree, tags, attrs, cur, found, attr, err>>

\* the method has moved to nil Data: it returns n
NavNil ==
    /\ AtNav("enter")
    /\ Moved(Top.proc, Top.c.Node).Data = Nil
    /\ ret' = Moved(Top.proc, Top.c.Node)
    /\ stack' = Pop
    /\ UNCHANGED <<tree, tags, attrs, cur, op, result, found, calls, count, attr, err, visited>>

\* the method has moved to a candidate: it calls n.FindNode(filters...)
NavTest ==
    /\ AtNav("enter")
    /\ Moved(Top.proc, Top.c.Node).Data # Nil
    /\ LET n2 == Moved(Top.proc, Top.c.Node)
           c1 == Config(n2, filters(Top.c.Filters), TRUE)
           c2 == [c1 EXCEPT !.Node.Match = match(c1)]
       IN /\ stack' = Push([Top EXCEPT !.pc = "test", !.c.Node = n2],
                           Frame("fn", "enter", c2, 0, 0, ZeroNode))
          /\ calls' = Append(calls, Called(NilFilter, c2.Node, 0, 0))
    /\ result' = <<>>
    /\ UNCHANGED <<tree, tags, attrs, cur, op, ret, found, count, attr, err, visited>>

\* the find succeeded: the method returns n
NavFound ==
    /\ AtNav("test")
    /\ Len(result) # 0
    /\ ret' = Top.c.Node
    /\ stack' = Pop
    /\ UNCHANGED <<tree, tags, attrs, cur, op, result, found, calls, count, attr, err, visited>>

\* the find failed: the method calls itself, or its sibling method, on n
NavNext ==
    /\ AtNav("test")
    /\ Len(result) = 0
    /\ stack' = Push([Top EXCEPT !.pc = "return"],
                     Frame(Onward(Top.proc), "enter", Top.c, 0, 0, Top.c.Node))
    /\ UNCHANGED <<tree, tags, attrs, cur, op, result, ret, found, calls, count, attr, err,
                   visited>>

\* the method returns what that call returned
NavReturn ==
    /\ AtNav("return")
    /\ stack' = Pop
    /\ UNCHANGED <<tree, tags, attrs, cur, op, result, ret, found, calls, count, attr, err,
                   visited>>

\* the first call of a loop: siblingIndex calls PrevSibling, Range calls
\* FirstChild, siblingLength calls siblingIndex
LoopFirst ==
    /\ AtLoop("enter")
    /\ stack' = Push([Top EXCEPT !.pc = IF Top.proc = "SiblingLength" THEN "indexed" ELSE "got"],
                     Frame(CASE Top.proc = "SiblingIndex" -> "PrevSibling"
                             [] Top.proc = "Range" -> "FirstChild"
                             [] Top.proc = "SiblingLength" -> "SiblingIndex",
                           "enter", Top.c, 0, 0, Top.n))
    /\ UNCHANGED <<tree, tags, attrs, cur, op, result, ret, found, calls, count, attr, err,
                   visited>>

\* internal.go lines 248-250, first time round: the receiver is counted if
\* its Data is not nil
LoopIndexed ==
    /\ At("SiblingLength", "indexed")
    /\ IF Top.n.Data = Nil
       THEN stack' = Pop /\ count' = count
       ELSE /\ count' = count + 1
            /\ stack' = Push([Top EXCEPT !.pc = "got"],
                             Frame("NextSibling", "enter", Top.c, 0, 0, Top.n))
    /\ UNCHANGED <<tree, tags, attrs, cur, op, result, ret, found, calls, attr, err, visited>>

\* the navigation call of the loop returned a handle with Data: it is
\* counted, or passed to the callback, and the next call is made on it
LoopStep ==
    /\ AtLoop("got")
    /\ ret.Data # Nil
    /\ count' = count + 1
    /\ visited' = IF Top.proc = "Range" THEN Append(visited, [i |-> count, node |-> ret])
                  ELSE visited
    /\ stack' = Push([Top EXCEPT !.n = ret],
                     Frame(IF Top.proc = "SiblingIndex" THEN "PrevSibling" ELSE "NextSibling",
                           "enter", [Top.c EXCEPT !.Node = ret], 0, 0, ret))
    /\ UNCHANGED <<tree, tags, attrs, cur, op, result, ret, found, calls, attr, err>>

\* it returned a handle with nil Data: the loop ends
LoopEnd ==
    /\ AtLoop("got")
    /\ ret.Data = Nil
    /\ stack' = Pop
    /\ UNCHANGED <<tree, tags, attrs, cur, op, result, ret, found, calls, count, attr, err,
                   visited>>

\* a statement of a call in progress
Steps ==
    \/ FnReturn
    \/ FnAppend
    \/ FnConsume
    \/ ClosureReject
    \/ ClosureLast
    \/ ClosureMatch
    \/ ClosureLoop
    \/ ClosureReturn
    \/ FnSearch
    \/ FnLoop
    \/ FnDedupe
    \/ FnDone
    \/ NavNil
    \/ NavTest
    \/ NavFound
    \/ NavNext
    \/ NavReturn
    \/ LoopFirst
    \/ LoopIndexed
    \/ LoopStep
    \/ LoopEnd

\* every call that traverses or navigates, statement by statement
NextCalls ==
    \/ StartFilter
    \/ StartCall
    \/ Steps

\* a call in progress goes on as long as it has a statement to execute
SpecCalls == InitEngine /\ [][NextCalls]_vars /\ WF_vars(Steps)

----------------------------------------------------------------------------
(* the vocabulary of the properties                                        *)

\* the strict ancestors of an html.Node
RECURSIVE Ancestors(_)
Ancestors(x) == IF tree[x] = Nil THEN {} ELSE {tree[x]} \cup Ancestors(tree[x])

\* the nodes of the sub-tree of r, r included
SubTree(r) == { x \in Nodes : x = r \/ r \in Ancestors(x) }

StrictDescendants(r) == SubTree(r) \ {r}

\* the number of edges from the document root down to x
TreeDepth(x) == Cardinality(Ancestors(x))

\* the depth-first pre-order walk of the sub-tree of n
RECURSIVE PreOrder(_), PreOrderFrom(_)
PreOrder(n) == <<n>> \o PreOrderFrom(HtmlFirstChild(n))
PreOrderFrom(c) ==
    IF c = Nil THEN <<>> ELSE PreOrder(c) \o PreOrderFrom(HtmlNextSibling(c))

Pos(s, x) == CHOOSE i \in 1 .. Len(s) : s[i] = x

\* a filter chain without its nil entries
Strip(fs) == SelectSeq(fs, LAMBDA f : f # NilFilter)

\* a closure that reads nothing but the html.Node
Pure(f) == f.off = AnyOffset
PureChain(fs) == \A i \in 1 .. Len(fs) : Pure(fs[i])

DataOf(res) == { res[i].Data : i \in 1 .. Len(res) }

IsFilter == op.name = "FilterNodes"
IsFind == op.name = "FindNode"

\* what FilterNodes returns for the receiver and chain of the last call
FullResult == filterNodes(op.recv, op.Filters, <<>>).result

IsDiv == [tag |-> "div", off |-> AnyOffset]
SpanAt1 == [tag |-> "span", off |-> 1]

----------------------------------------------------------------------------
\* C1: the list FilterNodes returns never holds two entries with the same
\* Data, whatever the closures of the chain read.
C1_NoDuplicates ==
    IsFilter =>
        \A i, j \in 1 .. Len(result) : i # j => result[i].Data # result[j].Data

\* a node below two nested div matches was returned for the chain [div, div]:
\* two predicate paths lead to it
C1_Witness ==
    /\ IsFilter
    /\ op.Filters = <<IsDiv, IsDiv>>
    /\ \E i \in 1 .. Len(result) :
          Cardinality({ a \in Ancestors(result[i].Data) \cap SubTree(op.recv.Data) :
                          tags[a] = "div" }) >= 2

\* C2: the entries of the list FilterNodes returns are in depth-first
\* pre-order of the receiver's sub-tree, also for chains that test Offset().
C2_PreOrder ==
    IsFilter =>
        \A i, j \in 1 .. Len(result) :
            i < j => Pos(PreOrder(op.recv.Data), result[i].Data)
                       < Pos(PreOrder(op.recv.Data), result[j].Data)

\* the nodes that end a chain y1, ..., yk of strict descents with fs[i] true
\* at yi and y1 in S
RECURSIVE ChainEnds(_, _)
ChainEnds(fs, S) ==
    LET hit == { y \in S : tags[y] = fs[1].tag }
    IN IF Len(fs) = 1 THEN hit
       ELSE UNION { ChainEnds(Tail(fs), StrictDescendants(y)) : y \in hit }

\* C3: for a chain of k >= 1 closures that read only the node, FilterNodes
\* returns exactly the nodes that end a chain of strict descents matching it.
C3_ChainSemantics ==
    (IsFilter /\ Strip(op.Filters) # <<>> /\ PureChain(op.Filters)) =>
        DataOf(result) = ChainEnds(Strip(op.Filters), SubTree(op.recv.Data))

\* [div, div] returned something, and left out a div that has no div above it
C3_Witness ==
    /\ IsFilter
    /\ op.Filters = <<IsDiv, IsDiv>>
    /\ result # <<>>
    /\ \E y \in SubTree(op.recv.Data) : tags[y] = "div" /\ y \notin DataOf(result)

\* C4: for a chain of closures that read only the node, find mode builds at
\* most one entry, none exactly when FilterNodes returns none, and else the
\* node of the first entry FilterNodes returns.
C4_FindIsPrefix ==
    (IsFind /\ PureChain(op.Filters)) =>
        /\ Len(result) <= 1
        /\ (result = <<>>) <=> (FullResult = <<>>)
        /\ found <=> (result # <<>>)
        /\ result # <<>> => ret = result[1] /\ ret.Data = FullResult[1].Data

\* find mode returned a node where FilterNodes returns several
C4_Witness ==
    /\ IsFind
    /\ PureChain(op.Filters)
    /\ found
    /\ Len(FullResult) >= 2

\* C5: the node find mode returns is the earliest, in the pre-order walk of
\* the receiver's sub-tree, of the nodes FilterNodes returns, also for chains
\* that test Offset().
C5_FindIsFirstInPreOrder ==
    (IsFind /\ found) =>
        \A i \in 1 .. Len(FullResult) :
            Pos(PreOrder(op.recv.Data), ret.Data)
                <= Pos(PreOrder(op.recv.Data), FullResult[i].Data)

C7_NoFiltersAllNodes ==
    /\ (IsFilter /\ Strip(op.Filters) = <<>>) =>
          /\ DataOf(result) = SubTree(op.recv.Data)
          /\ Len(result) = Cardinality(SubTree(op.recv.Data))
    /\ (IsFind /\ Strip(op.Filters) = <<>>) =>
          found /\ ret.Data = op.recv.Data

\* C8: FilterNodes and FindNode do for a chain what they do for the chain
\* without its nil entries: the same handles, the same closure calls.
C8_NilStripped ==
    /\ IsFilter =>
          LET st == filterNodes(op.recv, Strip(op.Filters), <<>>)
          IN result = st.result /\ calls = st.calls
    /\ IsFind =>
          LET r == findNode(op.recv, Strip(op.Filters), <<>>)
          IN result = r.elements /\ ret = r.node /\ found = r.ok /\ calls = r.calls

\* a chain with a nil before a closure that matched
C8_Witness ==
    /\ IsFilter
    /\ op.Filters = <<NilFilter, IsDiv>>
    /\ result # <<>>

\* the handle the engine builds for node x of the receiver's sub-tree, given
\* the Match it carries
HandleAt(x, m) ==
    Node(x, op.recv.Depth + TreeDepth(x) - TreeDepth(op.recv.Data), m)

\* the receiver as the traversal root: line 56 has set its Match
RootHandle ==
    IF op.recv.Data # Nil /\ (op.recv.Match = <<>> \/ op.recv.Match[1].Data # op.recv.Data)
    THEN [op.recv EXCEPT !.Match = <<[Data |-> op.recv.Data, Depth |-> op.recv.Depth]>> \o @]
    ELSE op.recv

\* the ancestors of x, inside the receiver's sub-tree, at which the first
\* closure of the two-closure chain fs succeeds
F1Ancestors(fs, x) ==
    { a \in Ancestors(x) \cap SubTree(op.recv.Data) :
        Call(fs[1], HandleAt(a, RootHandle.Match)) }

\* those of them relative to which the second closure accepts x
Qualifying(fs, x) ==
    { a \in F1Ancestors(fs, x) :
        Call(fs[2], HandleAt(x, <<[Data |-> a, Depth |-> HandleAt(a, <<>>).Depth]>>)) }

Nearest(S) == CHOOSE a \in S : \A b \in S : TreeDepth(b) <= TreeDepth(a)
Outermost(S) == CHOOSE a \in S : \A b \in S : TreeDepth(a) <= TreeDepth(b)

\* C9 as stated: for a chain [f1, f2] every result handle has Match at the
\* nearest ancestor at which f1 succeeded, and Offset() counts the steps from
\* that ancestor.
C9_MatchIsNearest ==
    (IsFilter /\ Len(Strip(op.Filters)) = 2) =>
        \A i \in 1 .. Len(result) :
            LET x == result[i]
                S == F1Ancestors(Strip(op.Filters), x.Data)
            IN /\ S # {}
               /\ x.Match # <<>>
               /\ x.Match[1].Data = Nearest(S)
               /\ Offset(x) = TreeDepth(x.Data) - TreeDepth(Nearest(S))

\* C9 amended: for a chain [f1, f2] every result handle x has Match at an
\* ancestor of x at which f1 succeeded and relative to which f2 accepted x,
\* of several such ancestors the outermost; Offset() counts the steps from
\* that ancestor down to x; and every node with such an ancestor is returned.
C9_MatchIsOutermost ==
    (IsFilter /\ Len(Strip(op.Filters)) = 2) =>
        /\ \A i \in 1 .. Len(result) :
              LET x == result[i]
                  Q == Qualifying(Strip(op.Filters), x.Data)
              IN /\ Q # {}
                 /\ x.Match # <<>>
                 /\ x.Match[1].Data = Outermost(Q)
                 /\ Offset(x) = TreeDepth(x.Data) - TreeDepth(Outermost(Q))
        /\ \A x \in SubTree(op.recv.Data) :
              Qualifying(Strip(op.Filters), x) # {} => x \in DataOf(result)

\* a result with two nested ancestors to choose from
C9_Witness ==
    /\ IsFilter
    /\ Len(Strip(op.Filters)) = 2
    /\ \E i \in 1 .. Len(result) :
          Cardinality(Qualifying(Strip(op.Filters), result[i].Data)) >= 2

\* the entry of calls that begins the traversal in which call i was made
RootOfCall(i) ==
    LET m == CHOOSE k \in 1 .. i :
                 /\ calls[k].filter = NilFilter
                 /\ \A l \in (k + 1) .. i : calls[l].filter # NilFilter
    IN calls[m].node

\* C10: in every traversal - a direct one, one that a navigation method
\* starts at a candidate, one from a handle that carries a Match chain - the
\* root handle has Offset() 0: when the traversal begins, when a closure is
\* called on the root, and when the root is in the result.
C10_RootOffsetZero ==
    /\ \A i \in 1 .. Len(calls) :
          /\ (calls[i].filter = NilFilter /\ calls[i].node.Data # Nil) =>
                Offset(calls[i].node) = 0
          /\ (calls[i].filter # NilFilter /\ calls[i].node.Data = RootOfCall(i).Data) =>
                Offset(calls[i].node) = 0
    /\ (IsFilter \/ IsFind) =>
          \A i \in 1 .. Len(result) :
              result[i].Data = op.recv.Data => Offset(result[i]) = 0

\* Parent(f) tested a closure on the parent, which is the node the receiver's
\* Match already points to, below the document root
C10_Witness ==
    /\ op.name = "Parent"
    /\ op.recv.Match # <<>>
    /\ op.recv.Match[1].Data = HtmlParent(op.recv.Data)
    /\ op.recv.Match[1].Depth > 0
    /\ \E i \in 1 .. Len(calls) :
          /\ calls[i].filter # NilFilter
          /\ calls[i].node.Data = op.recv.Match[1].Data
          /\ calls[i].node.Data = RootOfCall(i).Data

\* the Match chain of handle h ends at the snapshot of the receiver, which is
\* in it once
EndsAtRoot(h) ==
    /\ h.Match # <<>>
    /\ h.Match[Len(h.Match)] = [Data |-> op.recv.Data, Depth |-> op.recv.Depth]
    /\ Cardinality({ i \in 1 .. Len(h.Match) : h.Match[i].Data = op.recv.Data }) = 1

\* C11: in a traversal from a handle with Data and without Match, every handle
\* a closure is called with and every result handle has a Match, and its
\* Match chain ends at the snapshot of the traversal root, which has no Match
\* of its own and occurs in the chain once.
C11_RootIsInitialMatch ==
    ((IsFilter \/ IsFind) /\ op.recv.Data # Nil /\ op.recv.Match = <<>>) =>
        /\ \A i \in 1 .. Len(calls) :
              calls[i].filter # NilFilter => EndsAtRoot(calls[i].node)
        /\ \A i \in 1 .. Len(result) : EndsAtRoot(result[i])

\* a result below a match that is not the root: its chain has two snapshots
C11_Witness ==
    /\ IsFilter
    /\ op.recv.Match = <<>>
    /\ \E i \in 1 .. Len(result) :
          /\ Len(result[i].Match) >= 2
          /\ result[i].Match[1].Data # op.recv.Data

\* every handle of the state: the one the caller holds, the receiver of the
\* last call, what it returned, what its closures were called with
Handles ==
    {cur, op.recv, ret} \cup { result[i] : i \in 1 .. Len(result) }
                       \cup { calls[i].node : i \in 1 .. Len(calls) }

\* no snapshot of the Match chain of h is followed by one of the same node
NoRepeat(h) ==
    \A i \in 1 .. (Len(h.Match) - 1) : h.Match[i].Data # h.Match[i + 1].Data

\* C12: after any sequence of filter, find and navigation calls from the
\* parsed root, no handle has a Match chain in which a snapshot is followed
\* by a snapshot of the same html.Node.
C12_NoConsecutiveMatch == \A h \in Handles : NoRepeat(h)

\* a traversal from a handle that navigation has moved away from its last
\* match returned a handle with that match and a new one in its chain
C12_Witness ==
    /\ IsFilter
    /\ op.recv.Data # Nil
    /\ op.recv.Match # <<>>
    /\ op.recv.Match[1].Data \notin Ancestors(op.recv.Data) \cup {op.recv.Data}
    /\ \E i \in 1 .. Len(result) : Len(result[i].Match) >= 2

\* C13 as stated: Offset() is Depth minus the Depth of the Match, and 0 for a
\* handle without Match, whatever its Depth.
C13_OffsetZeroWithoutMatch ==
    op.name = "Offset" =>
        count = IF op.recv.Match # <<>>
                THEN op.recv.Depth - op.recv.Match[1].Depth
                ELSE 0

\* C13 amended: Offset() is Depth minus the Depth of the Match, and Depth
\* itself for a handle without Match.
C13_OffsetIsDepthWithoutMatch ==
    op.name = "Offset" =>
        count = IF op.recv.Match # <<>>
                THEN op.recv.Depth - op.recv.Match[1].Depth
                ELSE op.recv.Depth

\* Offset() of an empty handle that navigation has given a Depth
C13_Witness ==
    /\ op.name = "Offset"
    /\ op.recv.Data = Nil
    /\ op.recv.Match = <<>>
    /\ op.recv.Depth # 0
    /\ count = op.recv.Depth

\* handle h is of a node of the sub-tree of the handle r, and its Depth is
\* that of r plus the number of edges from the node of r down to its node
DepthBelow(h, r) ==
    /\ h.Data \in SubTree(r.Data)
    /\ h.Depth = r.Depth + TreeDepth(h.Data) - TreeDepth(r.Data)

\* C14: in every traversal, every handle a closure is called with and every
\* result handle has the Depth of the traversal root plus the number of edges
\* from the root's node down to its node, whatever path of matches led to it.
C14_DepthFromRoot ==
    /\ \A i \in 1 .. Len(calls) :
          calls[i].filter # NilFilter => DepthBelow(calls[i].node, RootOfCall(i))
    /\ (IsFilter \/ IsFind) =>
          \A i \in 1 .. Len(result) : DepthBelow(result[i], op.recv)

\* a traversal from a handle below the document root returned a node two
\* levels below it
C14_Witness ==
    /\ IsFilter
    /\ op.recv.Depth >= 1
    /\ \E i \in 1 .. Len(result) :
          /\ result[i].Depth = op.recv.Depth + 2
          /\ \E k \in 1 .. Len(calls) : calls[k].node = result[i]

\* the closure calls among the entries of calls
ClosureCalls == { i \in 1 .. Len(calls) : calls[i].filter # NilFilter }

\* C15: no closure is called with a handle whose Data is nil, in the
\* traversals of FilterNodes, FindNode and GetNode and in those the navigation
\* and sibling methods start; a call on the empty handle calls no closure.
C15_NoClosureOnNil ==
    /\ \A i \in ClosureCalls : calls[i].node.Data # Nil
    /\ op.recv.Data = Nil => ClosureCalls = {}

\* FilterNodes with a closure in the chain, on an empty handle that carries
\* a Match
C15_Witness ==
    /\ IsFilter
    /\ op.recv.Data = Nil
    /\ op.recv.Match # <<>>
    /\ Strip(op.Filters) # <<>>
    /\ ClosureCalls = {}
    /\ result = <<>>

NavNames == {"Parent", "FirstChild", "LastChild", "PrevSibling", "NextSibling"}

\* C16: on a handle with nil Data, whatever its Depth and Match and whatever
\* the chain, the five navigation methods return a handle with nil Data,
\* Children returns an empty slice, SiblingIndex and SiblingLength return 0,
\* Attr is empty and GetAttr finds nothing.
C16_EmptyHandleAbsorbs ==
    op.recv.Data = Nil =>
        /\ op.name \in NavNames => ret.Data = Nil
        /\ op.name = "Children" => result = <<>>
        /\ op.name \in {"SiblingIndex", "SiblingLength"} => count = 0
        /\ op.name = "GetAttr" => Attr(op.recv) = <<>> /\ ~found /\ attr = ZeroAttr

\* SiblingLength with a closure, on an empty handle that navigation from a
\* traversal result has produced
C16_Witness ==
    /\ op.name = "SiblingLength"
    /\ op.recv.Data = Nil
    /\ op.recv.Match # <<>>
    /\ op.recv.Depth # 0
    /\ op.Filters # <<>>
    /\ count = 0

\* nothing can match: the receiver is empty, or the chain reads only the node
\* and no chain of strict descents in the receiver's sub-tree matches it
NoMatch ==
    \/ op.recv.Data = Nil
    \/ /\ Strip(op.Filters) # <<>>
       /\ PureChain(op.Filters)
       /\ ChainEnds(Strip(op.Filters), SubTree(op.recv.Data)) = {}

\* C17: when nothing matches, FilterNodes returns an empty slice, FindNode
\* returns Node{} and false and GetNode returns Node{}: nil Data, Depth 0 and
\* nil Match, whatever Depth and Match the receiver has; and FindNode returns
\* false only together with Node{}.
C17_NoMatchIsZero ==
    /\ (IsFilter /\ NoMatch) => result = <<>>
    /\ (IsFind /\ NoMatch) => ~found
    /\ (IsFind /\ ~found) => ret = ZeroNode /\ result = <<>>
    /\ (IsFind /\ found) => ret.Data # Nil
    /\ (op.name = "GetNode" /\ NoMatch) => ret = ZeroNode

\* FindNode on an empty handle that has a Depth and a Match
C17_Witness ==
    /\ IsFind
    /\ op.recv.Data = Nil
    /\ op.recv.Depth # 0
    /\ op.recv.Match # <<>>
    /\ ret = ZeroNode
    /\ ~found

IsParse == op.name = "htmlutil.Parse"

\* the document root as Parse wraps it: Node{Data: node}
ParseRoot == Node(DocRoot, 0, <<>>)

\* what find mode from handle r yields for a chain that reads only the node:
\* nothing, r itself, or a node below it
FindOutcome(r, fs) ==
    IF Strip(fs) = <<>> THEN "root"
    ELSE IF ~PureChain(fs) THEN "impure"
    ELSE IF ChainEnds(Strip(fs), SubTree(r.Data)) = {} THEN "none"
    ELSE IF Len(Strip(fs)) = 1 /\ tags[r.Data] = Strip(fs)[1].tag THEN "root"
    ELSE "below"

\* C18: Parse has three outcomes. When html.Parse fails: the empty handle and
\* that error, and no closure called. When it succeeds and nothing matches
\* from the document root at Depth 0: the empty handle and the error
\* "htmlutil.Parse no match". Else the handle find mode returns from the
\* root, and no error. Never a handle with Data together with an error.
C18_ParseOutcomes ==
    IsParse =>
        /\ op.readErr # NoError =>
              ret = ZeroNode /\ err = op.readErr /\ calls = <<>>
        /\ op.readErr = NoError =>
              /\ FindOutcome(ParseRoot, op.Filters) = "none" =>
                    ret = ZeroNode /\ err = ParseNoMatch
              /\ FindOutcome(ParseRoot, op.Filters) = "root" =>
                    ret = [ParseRoot EXCEPT !.Match = Snapshot(ParseRoot)] /\ err = NoError
              /\ FindOutcome(ParseRoot, op.Filters) = "below" =>
                    /\ ret.Data \in StrictDescendants(DocRoot)
                    /\ ret.Depth = TreeDepth(ret.Data)
                    /\ err = NoError
              /\ \A i \in ClosureCalls : RootOfCall(i) = [ParseRoot EXCEPT !.Match = Snapshot(ParseRoot)]
        /\ (ret = ZeroNode /\ err # NoError) \/ (ret.Data # Nil /\ err = NoError)

\* Parse of a reader that failed, with a closure that the document matches
C18_Witness ==
    /\ IsParse
    /\ op.readErr # NoError
    /\ op.readErr # ParseNoMatch
    /\ op.Filters = <<IsDiv>>
    /\ tags[DocRoot] = "div"
    /\ ret = ZeroNode
    /\ err = op.readErr

\* Parent was called on a handle with Data, with one closure that reads only
\* the node
ParentOfOne ==
    /\ op.name = "Parent"
    /\ op.recv.Data # Nil
    /\ Len(op.Filters) = 1
    /\ Pure(op.Filters[1])

\* the handle of ancestor a of the receiver, or the empty handle Parent ends
\* with above the document root, when S has no ancestor to choose
Ascended(S) ==
    IF S = {}
    THEN Node(Nil, op.recv.Depth - TreeDepth(op.recv.Data) - 1, op.recv.Match)
    ELSE Node(Nearest(S), op.recv.Depth - TreeDepth(op.recv.Data) + TreeDepth(Nearest(S)),
              op.recv.Match)

\* C19 as stated: Parent(p) returns the nearest strict ancestor that itself
\* satisfies p, with Depth one less per level, and a handle with nil Data
\* when no ancestor satisfies p.
C19_ParentSatisfies ==
    ParentOfOne =>
        ret = Ascended({ a \in Ancestors(op.recv.Data) : tags[a] = op.Filters[1].tag })

\* C19 amended: Parent(p) returns the nearest strict ancestor a at which find
\* mode with the chain (p) succeeds, that is, with p true at a or at a node
\* of the sub-tree of a (the receiver is one); Depth is one less per level;
\* the result has nil Data when no ancestor is such.
C19_ParentFinds ==
    ParentOfOne =>
        ret = Ascended({ a \in Ancestors(op.recv.Data) :
                           \E y \in SubTree(a) : tags[y] = op.Filters[1].tag })

\* Parent(p) went past the parent, in whose sub-tree p is false everywhere,
\* to a node above it
C19_Witness ==
    /\ ParentOfOne
    /\ ret.Data # Nil
    /\ ret.Data # HtmlParent(op.recv.Data)
    /\ ret.Depth = op.recv.Depth - 2

\* the html.Nodes a child or sibling method of the last call scans
Candidates ==
    CASE op.name \in {"FirstChild", "LastChild"} -> ChildSet(op.recv.Data)
      [] op.name = "NextSibling" ->
            { c \in Nodes : tree[c] = tree[op.recv.Data] /\ tree[c] # Nil /\ c > op.recv.Data }
      [] op.name \in {"PrevSibling", "SiblingIndex"} ->
            { c \in Nodes : tree[c] = tree[op.recv.Data] /\ tree[c] # Nil /\ c < op.recv.Data }

\* the handle of candidate c: the receiver moved to c
CandidateHandle(c) ==
    Node(c, IF op.name \in {"FirstChild", "LastChild"} THEN op.recv.Depth + 1 ELSE op.recv.Depth,
         op.recv.Match)

\* the candidates at which find mode with the chain of the call succeeds
Selected == { c \in Candidates : findNode(CandidateHandle(c), op.Filters, <<>>).ok }

\* C20: on a handle with Data, FirstChild(F) and NextSibling(F) return the
\* handle of the leftmost, LastChild(F) and PrevSibling(F) of the rightmost
\* child or sibling at which find mode with chain F succeeds: of that child
\* or sibling itself, with the receiver's Match, also when the match is below
\* it; a handle with nil Data when there is none; SiblingIndex(F) is the
\* number of preceding siblings at which find mode succeeds.
C20_SelectsByFind ==
    op.recv.Data # Nil =>
        /\ op.name \in {"FirstChild", "NextSibling"} =>
              ret = CandidateHandle(IF Selected = {} THEN Nil ELSE SetMin(Selected))
        /\ op.name \in {"LastChild", "PrevSibling"} =>
              ret = CandidateHandle(IF Selected = {} THEN Nil ELSE SetMax(Selected))
        /\ op.name = "SiblingIndex" => count = Cardinality(Selected)

\* LastChild(div) passed over a child and returned a span, for a div below it
C20_Witness ==
    /\ op.name = "LastChild"
    /\ op.Filters = <<IsDiv>>
    /\ ret.Data # Nil
    /\ tags[ret.Data] = "span"
    /\ ret.Data # HtmlLastChild(op.recv.Data)
    /\ ret.Match = op.recv.Match

\* the siblings of the receiver before it (dir = -1) or after it (dir = 1) at
\* which find mode with chain fs succeeds, the receiver moved to each in turn
SiblingsFound(dir, fs) ==
    { c \in Nodes :
        /\ tree[c] = tree[op.recv.Data]
        /\ tree[c] # Nil
        /\ (c - op.recv.Data) * dir > 0
        /\ findNode(Node(c, op.recv.Depth, op.recv.Match), fs, <<>>).ok }

\* C21: SiblingLength(F) of a handle with Data is SiblingIndex(F), plus one
\* for the receiver whether or not F selects it, plus the number of following
\* siblings F selects; so it is at least 1 and more than SiblingIndex(F). Of
\* a handle with nil Data it is 0.
C21_LengthCountsReceiver ==
    op.name = "SiblingLength" =>
        IF op.recv.Data = Nil THEN count = 0
        ELSE /\ count = siblingIndex(op.recv, op.Filters, <<>>).v + 1
                          + Cardinality(SiblingsFound(1, op.Filters))
             /\ siblingIndex(op.recv, op.Filters, <<>>).v
                    = Cardinality(SiblingsFound(-1, op.Filters))
             /\ count >= 1
             /\ count > siblingIndex(op.recv, op.Filters, <<>>).v

\* SiblingLength(div) of a handle at which find mode with (div) fails, with
\* a sibling before it and one after it that are counted
C21_Witness ==
    /\ op.name = "SiblingLength"
    /\ op.Filters = <<IsDiv>>
    /\ op.recv.Data # Nil
    /\ ~findNode(op.recv, op.Filters, <<>>).ok
    /\ SiblingsFound(-1, op.Filters) # {}
    /\ SiblingsFound(1, op.Filters) # {}
    /\ count = 3

\* C22: FirstChild and LastChild return a handle with the receiver's Depth
\* plus 1, also when no child matches and when the receiver is empty;
\* NextSibling and PrevSibling return the receiver's Depth; Parent without
\* filters returns the receiver's Depth minus 1, also when there is no
\* parent. So every handle with Data that a sequence of navigation steps from
\* the parsed root leads to has the Depth of its node in the document: two
\* handles of the same node have the same Depth.
C22_DepthUnderNavigation ==
    /\ op.name \in {"FirstChild", "LastChild"} => ret.Depth = op.recv.Depth + 1
    /\ op.name \in {"NextSibling", "PrevSibling"} => ret.Depth = op.recv.Depth
    /\ (op.name = "Parent" /\ op.Filters = <<>>) => ret.Depth = op.recv.Depth - 1
    /\ \A h \in {cur, op.recv, ret} : h.Data # Nil => h.Depth = TreeDepth(h.Data)

\* LastChild with a filter, on the empty handle that Parent() of the document
\* root returned
C22_Witness ==
    /\ op.name = "LastChild"
    /\ op.Filters # <<>>
    /\ op.recv.Data = Nil
    /\ op.recv.Depth = -1
    /\ ret.Data = Nil
    /\ ret.Depth = 0

IsRange == op.name = "Range"

\* C23: Range with a nil callback panics with "htmlutil.Node.Range nil fn",
\* whatever the receiver - the empty handle too - and whatever the chain,
\* before a filter closure is called or a child is visited; with a callback
\* it does not panic.
C23_NilFnPanics ==
    IsRange =>
        /\ op.fn = NilFn => err = RangePanic /\ calls = <<>> /\ visited = <<>>
        /\ op.fn # NilFn => err = NoError

\* Range(nil, div) on a handle with a child that the chain selects
C23_Witness ==
    /\ IsRange
    /\ op.fn = NilFn
    /\ op.Filters = <<IsDiv>>
    /\ op.recv.Data # Nil
    /\ FirstChild(op.recv, op.Filters, <<>>).node.Data # Nil
    /\ err = RangePanic

\* the elements of the set S of html.Nodes from left to right
RECURSIVE InOrder(_)
InOrder(S) == IF S = {} THEN <<>> ELSE <<SetMin(S)>> \o InOrder(S \ {SetMin(S)})

\* the children of the receiver at which find mode with the chain of the call
\* succeeds, from left to right, each as the receiver moved to it
SelectedChildren ==
    LET S == IF op.recv.Data = Nil THEN {}
             ELSE { c \in ChildSet(op.recv.Data) :
                      findNode(Node(c, op.recv.Depth + 1, op.recv.Match), op.Filters, <<>>).ok }
        order == InOrder(S)
    IN [k \in 1 .. Len(order) |-> Node(order[k], op.recv.Depth + 1, op.recv.Match)]

\* the number of calls a callback gets when there are n children to visit
Visits(cb, n) == IF cb.kind = "stop" /\ cb.at < n THEN cb.at + 1 ELSE n

\* C24: Range(fn, F) calls fn with the children F selects, from left to
\* right, with the indexes 0, 1, 2, ... that count the selected children
\* only; the call in which fn returns false is the last; when fn always
\* returns true the handles visited are those Children(F) returns, in that
\* order; and Children(F) returns the selected children.
C24_RangeVisitsInOrder ==
    /\ (IsRange /\ op.fn # NilFn) =>
          /\ Len(visited) = Visits(op.fn, Len(SelectedChildren))
          /\ \A k \in 1 .. Len(visited) :
                /\ visited[k].i = k - 1
                /\ visited[k].node = SelectedChildren[k]
                /\ k < Len(visited) => CallFn(op.fn, visited[k].i, visited[k].node)
          /\ op.fn = AllFn =>
                [k \in 1 .. Len(visited) |-> visited[k].node]
                    = Children(op.recv, op.Filters, <<>>).children
    /\ op.name = "Children" => result = SelectedChildren

\* Range(fn, div) passed over the first child and called fn with index 0 on
\* the second; fn returned false, with a selected child still to come
C24_Witness ==
    /\ IsRange
    /\ op.fn = StopFn(0)
    /\ op.Filters = <<IsDiv>>
    /\ Len(SelectedChildren) = 2
    /\ SelectedChildren[1].Data # HtmlFirstChild(op.recv.Data)
    /\ visited = <<[i |-> 0, node |-> SelectedChildren[1]]>>

\* two keys that differ at most in the case of their letters
SameFold(a, b) == a = b \/ {a, b} \subseteq {"id", "ID", "Id"}

\* the places in the attribute list as that a lookup of (ns, key) accepts
Accepted(ns, key, as) ==
    { i \in 1 .. Len(as) :
        /\ as[i].Namespace = ns
        /\ IF ns = "" THEN SameFold(as[i].Key, key) ELSE as[i].Key = key }

\* C25: getAttr returns the first attribute of the list whose Namespace is
\* the namespace asked for, exactly, and whose Key is the key asked for -
\* whatever the case of the letters when the namespace is empty, exactly
\* when it is not - and html.Attribute{} and false when there is none, in
\* which case getAttrVal is the empty string; a lookup with the empty
\* namespace never returns an attribute that has a namespace.
C25_FirstAttribute ==
    op.name = "GetAttr" =>
        LET as == Attr(op.recv)
            acc == Accepted(op.Filters[1], op.Filters[2], as)
        IN /\ found <=> acc # {}
           /\ found => attr = as[SetMin(acc)]
           /\ ~found => attr = ZeroAttr
           /\ getAttrVal(op.Filters[1], op.Filters[2], as) = IF found THEN attr.Val ELSE ""
           /\ (found /\ op.Filters[1] = "") => attr.Namespace = ""

\* a lookup with a namespace passed over an attribute of that namespace whose
\* key differs in case only, and returned the first of two that it accepts
C25_Witness ==
    /\ op.name = "GetAttr"
    /\ op.Filters = <<"svg", "ID">>
    /\ Attr(op.recv) = << Attribute("svg", "id", "a"), Attribute("svg", "ID", "b"),
                          Attribute("svg", "ID", "a") >>
    /\ found
    /\ attr = Attribute("svg", "ID", "b")

\* filter() is running, or has returned
InEngine == op.name = "filter"
EngineDone == InEngine /\ stack = <<>>

\* the closure calls without the place and the length
PlainCalls == [k \in 1 .. Len(calls) |-> [filter |-> calls[k].filter, node |-> calls[k].node]]

\* when filter() has returned, its result and its closure calls are those of
\* the operator filter
EngineAgrees ==
    EngineDone =>
        LET st == filter(Config(op.recv, op.Filters, op.Find), <<>>)
        IN result = st.result /\ PlainCalls = st.calls

\* C26: at every point of a find mode traversal the result holds at most one
\* entry, and every closure call was made while it held none: after the
\* first entry is appended no filter is called and nothing is appended.
C26_FindStopsAtFirst ==
    (InEngine /\ op.Find) =>
        /\ Len(result) <= 1
        /\ \A i \in 1 .. Len(calls) : calls[i].had = 0

\* a find mode traversal has its first result, frames of fn still to return
\* from with children not yet visited, and more nodes that would match
C26_Witness ==
    /\ InEngine
    /\ op.Find
    /\ Len(result) = 1
    /\ \E k \in 1 .. Len(stack) :
          stack[k].proc = "fn" /\ stack[k].pc = "loop" /\ stack[k].n.Data # Nil
    /\ Len(filterNodes(op.recv, op.Filters, <<>>).result) >= 2

\* the closure calls of the first filter of the chain on html.Node x
FirstCalls(x) == { i \in 1 .. Len(calls) : calls[i].pos = 1 /\ calls[i].node.Data = x }

\* C27: a traversal that is not in find mode, with at least one filter in
\* the chain, calls the first filter on every node of the receiver's
\* sub-tree, the receiver included, whether or not filters accepted the
\* nodes above it: at least once, and exactly once when the chain is of one
\* filter.
C27_EveryNodeSearched ==
    (EngineDone /\ ~op.Find /\ op.recv.Data # Nil /\ filters(op.Filters) # <<>>) =>
        \A x \in SubTree(op.recv.Data) :
            /\ FirstCalls(x) # {}
            /\ \A i \in FirstCalls(x) : calls[i].filter = filters(op.Filters)[1]
            /\ Len(filters(op.Filters)) = 1 => Cardinality(FirstCalls(x)) = 1

\* the first of two filters was called on a child of a node, below the
\* receiver, that it had accepted, and on a child of a node it had rejected
C27_Witness ==
    /\ EngineDone
    /\ ~op.Find
    /\ op.Filters = <<IsDiv, SpanAt1>>
    /\ \E x \in StrictDescendants(op.recv.Data) :
          /\ FirstCalls(x) # {}
          /\ tags[tree[x]] = "div"
          /\ tree[x] # op.recv.Data
    /\ \E y \in StrictDescendants(op.recv.Data) :
          /\ FirstCalls(y) # {}
          /\ tags[tree[y]] = "span"

\* C28: the handle Parent, FirstChild, LastChild, PrevSibling or NextSibling
\* returns has the Match of the receiver, with and without filters, whether
\* a candidate matched or not: the Match of the handles found while testing
\* the candidates is not in it. The handle the caller holds is the receiver
\* as it was.
C28_NavigationKeepsMatch ==
    op.name \in NavNames =>
        /\ ret.Match = op.recv.Match
        /\ cur = op.recv

\* Parent(div) returned an ancestor for which the find returned a handle
\* with another Match than that of the receiver, which has one
C28_Witness ==
    /\ op.name = "Parent"
    /\ op.Filters = <<IsDiv>>
    /\ op.recv.Match # <<>>
    /\ ret.Data # Nil
    /\ findNode(ret, op.Filters, <<>>).ok
    /\ findNode(ret, op.Filters, <<>>).node.Match # op.recv.Match

Reverse(sq) == [k \in 1 .. Len(sq) |-> sq[Len(sq) + 1 - k]]

\* C29: the handles FirstChild(F) and then NextSibling(F), repeated until
\* Data is nil, lead through are those LastChild(F) and then PrevSibling(F)
\* lead through, in the opposite order, and are those Children(F) returns.
C29_ForwardIsBackwardReversed ==
    op.name = "Iterate" =>
        /\ result = Reverse([k \in 1 .. Len(visited) |-> visited[k].node])
        /\ result = Children(op.recv, op.Filters, <<>>).children

\* both loops passed over the middle one of three children
C29_Witness ==
    /\ op.name = "Iterate"
    /\ op.Filters # <<>>
    /\ Cardinality(ChildSet(op.recv.Data)) = 3
    /\ Len(result) = 2
    /\ result[1].Data = HtmlFirstChild(op.recv.Data)
    /\ visited[1].node.Data = HtmlLastChild(op.recv.Data)
    /\ op.recv.Match # <<>>

\* the call of the caller has returned
CallDone == ~Idle /\ stack = <<>>

\* when a method has returned, what it returned is what its operator yields
CallsAgree ==
    CallDone =>
        /\ op.name = "Parent" => ret = Parent(op.recv, op.Filters, <<>>).node
        /\ op.name = "FirstChild" => ret = FirstChild(op.recv, op.Filters, <<>>).node
        /\ op.name = "LastChild" => ret = LastChild(op.recv, op.Filters, <<>>).node
        /\ op.name = "PrevSibling" => ret = PrevSibling(op.recv, op.Filters, <<>>).node
        /\ op.name = "NextSibling" => ret = NextSibling(op.recv, op.Filters, <<>>).node
        /\ op.name = "SiblingIndex" => count = siblingIndex(op.recv, op.Filters, <<>>).v
        /\ op.name = "SiblingLength" => count = siblingLength(op.recv, op.Filters, <<>>).v
        /\ op.name = "Range" => visited = Range(op.recv, AllFn, op.Filters, <<>>).visited

\* the place in the stack of the innermost frame of a method of Node, 0 when
\* there is none: the frames above it are those of the traversal in progress
EngineBase ==
    LET S == { k \in 1 .. Len(stack) : stack[k].proc \notin {"fn", "closure"} }
    IN IF S = {} THEN 0 ELSE SetMax(S)

\* the frames of fn of the traversal in progress
FnFrames == { k \in (EngineBase + 1) .. Len(stack) : stack[k].proc = "fn" }

\* the number of edges from r down to the deepest node of its sub-tree
Height(r) ==
    IF r = Nil THEN 0 ELSE SetMax({ TreeDepth(x) - TreeDepth(r) : x \in SubTree(r) })

\* every frame of the traversal in progress was called on the node of the
\* frame that called it or on a child of that node: the closure on the node
\* of its fn, fn on a child, or on the same node with no filter left
StepsDown ==
    \A k \in (EngineBase + 2) .. Len(stack) :
        IF stack[k].proc = "closure"
        THEN stack[k - 1].proc = "fn" /\ stack[k].on = stack[k - 1].on
        ELSE \/ stack[k].on \in ChildSet(stack[k - 1].on)
             \/ /\ stack[k - 1].proc = "closure"
                /\ stack[k].on = stack[k - 1].on
                /\ Len(stack[k].c.Filters) = 0

\* the calls of fn nested in the first one are at most one per level below
\* the traversal root, and one more on the deepest node
NestingBound ==
    FnFrames # {} =>
        Cardinality(FnFrames) - 1 <= Height(stack[EngineBase + 1].on) + 1

\* C30: every traversal of filter() and every call of Parent, FirstChild,
\* LastChild, PrevSibling, NextSibling, Range, SiblingIndex and SiblingLength
\* returns. Each call of fn from within fn is on a child of the node, or on
\* the same node with the last filter consumed, so the calls of fn nested
\* in the first one of a traversal are at most the height of the sub-tree,
\* in edges, plus one (the frames of fn at most the height plus two).
C30_Terminates == ((stack # <<>>) ~> CallDone) /\ [](StepsDown /\ NestingBound)

\* in a call of FirstChild with a filter, the find on a candidate has a
\* frame of fn on every level of the candidate's sub-tree and one more
C30_Witness ==
    /\ op.name = "FirstChild"
    /\ op.Filters # <<>>
    /\ FnFrames # {}
    /\ Height(stack[EngineBase + 1].on) = 2
    /\ Cardinality(FnFrames) - 1 = Height(stack[EngineBase + 1].on) + 1

====
